---- MODULE Spec2Model ----
(***************************************************************************)
(* A model of the Fidelity transaction client (fidelity-helper).           *)
(*                                                                         *)
(* The repository holds two copies of the client class:                    *)
(*   "current": src/node/fidelity-helper/src/fidelity.ts                   *)
(*   "legacy" : src/unnamed/part_000 (lines 68-367)                        *)
(* They differ in the date validation (checkDate / checkStartEnd) and in   *)
(* the amount mapping of historyEntryToTransaction.  The variable          *)
(* `variant` says which copy a behaviour runs.                             *)
(*                                                                         *)
(* JavaScript strings whose characters matter (amounts, the backend        *)
(* status, decimal renderings) are sequences of one-character strings;     *)
(* `undefined`/`null` is the empty tuple None and a present value v is     *)
(* Some(v) = <<v>>.                                                        *)
(***************************************************************************)
EXTENDS Integers, Sequences, FiniteSets, TLC

\* ---------------------------------------------------------------- bounds
\* How many getTransactions calls a behaviour starts.
MaxCalls == 2
\* The longest identifier list passed to getTransactions.
MaxIds == 2
\* The longest raw amount string enumerated exhaustively (SpecAmount).
MaxLen == 3

\* ------------------------------------------------------------- utilities
None == <<>>
Some(x) == <<x>>
IsSome(o) == Len(o) = 1
Get(o) == o[1]

Range(s) == {s[i] : i \in 1..Len(s)}

\* A JavaScript Map: the entries in insertion order; set() on an existing
\* key replaces the value in place.
MapHas(m, k) == \E i \in 1..Len(m) : m[i].k = k
MapGet(m, k) == m[CHOOSE i \in 1..Len(m) : m[i].k = k].v
MapSet(m, k, v) ==
    IF MapHas(m, k)
    THEN [i \in 1..Len(m) |-> IF m[i].k = k THEN [k |-> k, v |-> v] ELSE m[i]]
    ELSE Append(m, [k |-> k, v |-> v])
MapKeys(m) == [i \in 1..Len(m) |-> m[i].k]
MapValues(m) == [i \in 1..Len(m) |-> m[i].v]

RECURSIVE Pow10(_)
Pow10(n) == IF n = 0 THEN 1 ELSE 10 * Pow10(n - 1)

\* ------------------------------------------------------------ characters
Digits == {"0", "1", "2", "3", "4", "5", "6", "7", "8", "9"}
DigitVal(c) ==
    CASE c = "0" -> 0 [] c = "1" -> 1 [] c = "2" -> 2 [] c = "3" -> 3
      [] c = "4" -> 4 [] c = "5" -> 5 [] c = "6" -> 6 [] c = "7" -> 7
      [] c = "8" -> 8 [] c = "9" -> 9
DigitChar(n) ==
    CASE n = 0 -> "0" [] n = 1 -> "1" [] n = 2 -> "2" [] n = 3 -> "3"
      [] n = 4 -> "4" [] n = 5 -> "5" [] n = 6 -> "6" [] n = 7 -> "7"
      [] n = 8 -> "8" [] n = 9 -> "9"
WhiteSpace == {" "}

\* Number.prototype.toString of a non-negative integer: its decimal digits.
RECURSIVE toString(_)
toString(n) ==
    IF n < 10 THEN <<DigitChar(n)>>
    ELSE Append(toString(n \div 10), DigitChar(n % 10))

\* String.prototype.toLowerCase on the letters the model uses.
LowerChar(c) ==
    CASE c = "O" -> "o" [] c = "K" -> "k" [] c = "D" -> "d" [] OTHER -> c
toLowerCase(s) == [i \in 1..Len(s) |-> LowerChar(s[i])]

\* ----------------------------------------------------------------- dates
MsPerSecond == 1000
MsPerMinute == 60 * MsPerSecond
MsPerHour == 60 * MsPerMinute
MsPerDay == 24 * MsPerHour
SecondsPerDay == 24 * 3600

\* A Date is [day, ms]: its time value is day * MsPerDay + ms with
\* 0 <= ms < MsPerDay (the time value itself exceeds TLC's 32-bit
\* integers), so day is the day number of its UTC calendar date.
Date(day, ms) == [day |-> day, ms |-> ms]
getUTCHours(d) == d.ms \div MsPerHour
getUTCMinutes(d) == (d.ms % MsPerHour) \div MsPerMinute
getUTCSeconds(d) == (d.ms % MsPerMinute) \div MsPerSecond
getUTCMilliseconds(d) == d.ms % MsPerSecond
\* The day number (days since 1970-01-01) of the UTC calendar date of d:
\* what getUTCFullYear/getUTCMonth/getUTCDate identify together.
UTCDayNumber(d) == d.day
\* start > end on Dates compares the time values.
DateGT(a, b) == a.day > b.day \/ (a.day = b.day /\ a.ms > b.ms)

\* dayOffset of checkDate, in milliseconds instead of fractional hours:
\* hours + minutes/60 + seconds/3600 + ms/3600000 is a sum of non-negative
\* terms, so it is zero exactly when this integer is.
dayOffsetMs(d) ==
    getUTCHours(d) * MsPerHour + getUTCMinutes(d) * MsPerMinute
        + getUTCSeconds(d) * MsPerSecond + getUTCMilliseconds(d)

\* checkDate: "" (the empty sequence) or the message `not exact day: X hours`.
checkDateNoTimeCheck(d) == <<>>
checkDate(d) ==
    IF dayOffsetMs(d) # 0
    THEN <<"not exact day: ", dayOffsetMs(d), " hours">>
    ELSE <<>>

\* [m1, m2, ...].filter(m => m.length > 0): the non-empty messages, which
\* join('; ') turns into a non-empty string exactly when there is one.
FilterNonEmpty(msgs) == SelectSeq(msgs, LAMBDA m : Len(m) > 0)

\* The date messages of the two copies: the current copy checks each date,
\* the legacy copy (checkStartEnd) also checks start > end.
dateMessageCurrent(start, end) ==
    FilterNonEmpty(<<checkDate(start), checkDate(end)>>)
outOfOrder(start, end) == IF DateGT(start, end) THEN <<"start > end">> ELSE <<>>
checkStartEnd(start, end) ==
    FilterNonEmpty(<<checkDate(start), checkDate(end), outOfOrder(start, end)>>)
dateMessage(v, start, end) ==
    IF v = "current" THEN dateMessageCurrent(start, end)
    ELSE checkStartEnd(start, end)

\* Civil calendar (proleptic Gregorian) <-> day number.
DaysFromCivil(y0, m, d) ==
    LET y == IF m <= 2 THEN y0 - 1 ELSE y0
        era == y \div 400
        yoe == y - era * 400
        mp == IF m > 2 THEN m - 3 ELSE m + 9
        doy == (153 * mp + 2) \div 5 + d - 1
        doe == yoe * 365 + yoe \div 4 - yoe \div 100 + doy
    IN era * 146097 + doe - 719468
YearOfDay(n) ==
    LET z == n + 719468
        era == z \div 146097
        doe == z - era * 146097
        yoe == (doe - doe \div 1460 + doe \div 36524 - doe \div 146096) \div 365
        doy == doe - (365 * yoe + yoe \div 4 - yoe \div 100)
        mp == (5 * doy + 2) \div 153
        m == IF mp < 10 THEN mp + 3 ELSE mp - 9
    IN yoe + era * 400 + (IF m <= 2 THEN 1 ELSE 0)
\* 0 = Sunday; 1970-01-01 was a Thursday.
Weekday(n) == (n + 4) % 7
FirstSundayOnOrAfter(n) == n + ((7 - Weekday(n)) % 7)
\* America/New_York since 2007: daylight time from 02:00 on the second
\* Sunday of March to 02:00 on the first Sunday of November.
SpringForwardDay(y) == FirstSundayOnOrAfter(DaysFromCivil(y, 3, 1)) + 7
FallBackDay(y) == FirstSundayOnOrAfter(DaysFromCivil(y, 11, 1))
\* The UTC offset (seconds west) in force at local midnight of day n.
NewYorkOffsetSeconds(n) ==
    LET y == YearOfDay(n)
    IN IF n > SpringForwardDay(y) /\ n <= FallBackDay(y)
       THEN 4 * 3600 ELSE 5 * 3600

\* fidelityDate / fidelityEpochSeconds: epoch seconds of midnight
\* America/New_York of the UTC calendar date of d, as a decimal string.
fidelityDateUTC(d) == toString(UTCDayNumber(d) * SecondsPerDay)
fidelityDate(d) ==
    toString(UTCDayNumber(d) * SecondsPerDay
                + NewYorkOffsetSeconds(UTCDayNumber(d)))

\* --------------------------------------------------------------- numbers
\* A Number is an IEEE-754 binary64 value.  A finite one that is not zero
\* is kept as its 53 significand bits sig, most significant first
\* (sig[1] = 1), and the exponent exp of the first of them: its magnitude
\* is the sum of sig[i] * 2^(exp + 1 - i).  Subnormals and overflow are
\* outside the magnitudes the model draws.
SigBits == 53
RECURSIVE Pow2(_)
Pow2(n) == IF n = 0 THEN 1 ELSE 2 * Pow2(n - 1)
\* The bits of n in width positions, most significant first, and back.
NatToBits(n, width) == [i \in 1..width |-> (n \div Pow2(width - i)) % 2]
RECURSIVE BitsToNat(_)
BitsToNat(bits) ==
    IF bits = <<>> THEN 0
    ELSE 2 * BitsToNat(SubSeq(bits, 1, Len(bits) - 1)) + bits[Len(bits)]
FirstOne(bits) ==
    CHOOSE i \in 1..Len(bits) :
        bits[i] = 1 /\ \A j \in 1..(i - 1) : bits[j] = 0
\* The first n binary places of r / den (0 <= r < den) and the remainder
\* they leave.
RECURSIVE fractionBits(_, _, _)
fractionBits(r, den, n) ==
    IF n = 0 THEN [bits |-> <<>>, rem |-> r]
    ELSE IF n = 1 THEN [bits |-> <<(2 * r) \div den>>, rem |-> (2 * r) % den]
    ELSE LET a == fractionBits(r, den, n \div 2)
             b == fractionBits(a.rem, den, n - n \div 2)
         IN [bits |-> a.bits \o b.bits, rem |-> b.rem]
\* Round to nearest, ties to even: the binary64 value nearest the number
\* whose bits (starting with a 1 of weight 2^exp, at least SigBits + 1 of
\* them) are followed by something more when `more` holds.
nearestDouble(bits, exp, more) ==
    LET kept == SubSeq(bits, 1, SigBits)
        half == bits[SigBits + 1] = 1
        rest == more \/ \E i \in (SigBits + 2)..Len(bits) : bits[i] = 1
        up == half /\ (rest \/ kept[SigBits] = 1)
    IN IF ~up THEN [zero |-> FALSE, sig |-> kept, exp |-> exp]
       ELSE IF \A i \in 1..SigBits : kept[i] = 1
       THEN [zero |-> FALSE,
             sig |-> [i \in 1..SigBits |-> IF i = 1 THEN 1 ELSE 0],
             exp |-> exp + 1]
       ELSE LET k == CHOOSE k \in 1..SigBits :
                        kept[k] = 0 /\ \A j \in (k + 1)..SigBits : kept[j] = 1
            IN [zero |-> FALSE,
                sig |-> [i \in 1..SigBits |->
                            IF i < k THEN kept[i] ELSE IF i = k THEN 1 ELSE 0],
                exp |-> exp]
Zero == [zero |-> TRUE, sig |-> <<>>, exp |-> 0]
\* The Number value of the decimal mant / 10^scale: the binary64 value
\* nearest it.  The integer part has at most IntBits bits; FracBits binary
\* places are enough to reach the rounding position of every decimal with
\* scale <= 9.
IntBits == 31
FracBits == 96
toDouble(mant, scale) ==
    IF mant = 0 THEN Zero
    ELSE LET den == Pow10(scale)
             frac == fractionBits(mant % den, den, FracBits)
             all == NatToBits(mant \div den, IntBits) \o frac.bits
             first == FirstOne(all)
         IN nearestDouble(SubSeq(all, first, Len(all)), IntBits - first,
                          frac.rem # 0)
\* x * 100 for a Number x >= 0.  The significand times 100 is computed
\* exactly in three limbs of 18 bits, then rounded to SigBits bits.
LimbBits == 18
times100(x) ==
    IF x.zero THEN Zero
    ELSE LET a == BitsToNat(SubSeq(x.sig, 1, SigBits - 2 * LimbBits))
             b == BitsToNat(SubSeq(x.sig, SigBits - 2 * LimbBits + 1,
                                   SigBits - LimbBits))
             c == BitsToNat(SubSeq(x.sig, SigBits - LimbBits + 1, SigBits))
             c100 == 100 * c
             b100 == 100 * b + c100 \div Pow2(LimbBits)
             a100 == 100 * a + b100 \div Pow2(LimbBits)
             product == NatToBits(a100, SigBits - 2 * LimbBits + 7)
                          \o NatToBits(b100 % Pow2(LimbBits), LimbBits)
                          \o NatToBits(c100 % Pow2(LimbBits), LimbBits)
             first == FirstOne(product)
         IN nearestDouble(SubSeq(product, first, Len(product)),
                          x.exp + Len(product) - SigBits + 1 - first, FALSE)
\* Math.round of the Number (-1)^neg * y: floor(value + 0.5), an integer.
mathRound(neg, y) ==
    IF y.zero THEN 0
    ELSE LET int == IF y.exp < 0 THEN 0
                    ELSE BitsToNat(SubSeq(y.sig, 1, y.exp + 1))
             half == /\ y.exp >= -1
                     /\ y.exp + 2 <= SigBits
                     /\ y.sig[y.exp + 2] = 1
             rest == \E i \in 1..SigBits : i >= y.exp + 3 /\ y.sig[i] = 1
         IN IF neg THEN -(int + (IF half /\ rest THEN 1 ELSE 0))
            ELSE int + (IF half THEN 1 ELSE 0)

\* The result of parseFloat: NaN, or the Number `double` with sign neg.  It
\* is the one nearest the decimal (-1)^neg * mant / 10^scale that the
\* string spells.  Exponents and "Infinity" are outside the characters the
\* model draws.
NaN == [nan |-> TRUE, neg |-> FALSE, mant |-> 0, scale |-> 0, double |-> Zero]

RECURSIVE trimStart(_)
trimStart(s) ==
    IF s # <<>> /\ Head(s) \in WhiteSpace THEN trimStart(Tail(s)) ELSE s
RECURSIVE trimEnd(_)
trimEnd(s) ==
    IF s # <<>> /\ s[Len(s)] \in WhiteSpace
    THEN trimEnd(SubSeq(s, 1, Len(s) - 1)) ELSE s
trim(s) == trimEnd(trimStart(s))

RECURSIVE takeDigits(_)
takeDigits(s) ==
    IF s # <<>> /\ Head(s) \in Digits
    THEN <<Head(s)>> \o takeDigits(Tail(s)) ELSE <<>>
RECURSIVE digitsToNat(_)
digitsToNat(ds) ==
    IF ds = <<>> THEN 0
    ELSE 10 * digitsToNat(SubSeq(ds, 1, Len(ds) - 1)) + DigitVal(ds[Len(ds)])

\* parseFloat: skip leading white space, then the longest prefix that is a
\* decimal literal (sign, digits, a point, digits); NaN when there is none.
parseFloat(str) ==
    LET t == trimStart(str)
        signed == t # <<>> /\ Head(t) \in {"+", "-"}
        u == IF signed THEN Tail(t) ELSE t
        ip == takeDigits(u)
        r == SubSeq(u, Len(ip) + 1, Len(u))
        fp == IF r # <<>> /\ Head(r) = "." THEN takeDigits(Tail(r)) ELSE <<>>
    IN IF Len(ip) + Len(fp) = 0 THEN NaN
       ELSE [nan |-> FALSE, neg |-> signed /\ Head(t) = "-",
             mant |-> digitsToNat(ip \o fp), scale |-> Len(fp),
             double |-> toDouble(digitsToNat(ip \o fp), Len(fp))]

\* Math.round(x * 100) / 100.  The product is the binary64 product, so a
\* decimal that ends in half a cent goes up or down as the product falls
\* ("2.675" gives 267.5 and 2.68, "1.005" gives 100.49999999999999 and 1).
\* Math.round gives an integer n, and n / 100 is kept as the number of
\* cents n; NaN stays NaN.
roundToCents(x) ==
    IF x.nan THEN [nan |-> TRUE, cents |-> 0]
    ELSE [nan |-> FALSE, cents |-> mathRound(x.neg, times100(x.double))]
isNaN(n) == n.nan

\* h.amount.replace(/[,$]/g, '')
stripCommaDollar(s) == SelectSeq(s, LAMBDA c : c \notin {",", "$"})

\* The amount of the current copy: undefined (None) for a blank or
\* unparsable string, else the rounded number.
amountCurrentNoNaNCheck(raw) ==
    LET amount_str == stripCommaDollar(raw)
    IN IF trim(amount_str) # <<>>
       THEN Some(roundToCents(parseFloat(amount_str)))
       ELSE None
amountCurrent(raw) ==
    LET amount_str == stripCommaDollar(raw)
    IN IF trim(amount_str) # <<>>
       THEN LET amount == roundToCents(parseFloat(amount_str))
            IN IF isNaN(amount) THEN None ELSE Some(amount)
       ELSE None
\* The amount of the legacy copy: always a number, NaN included.
amountLegacy(raw) == Some(roundToCents(parseFloat(stripCommaDollar(raw))))
amountOf(v, raw) == IF v = "current" THEN amountCurrent(raw) ELSE amountLegacy(raw)

\* ------------------------------------------------------ history entries
\* The date of a Transaction.  A raw date string is [day, ms, zone]: the
\* calendar day (day number) and time of day written in it, and how the
\* Date constructor reads it: "utc" (a date-only ISO string, or one ending
\* in Z), "local" (any other parsable form), "invalid" (not a date).
\* tz is the offset of the process's local zone from UTC in milliseconds.
\* new Date(h.date) is the instant; getFullYear/getMonth/getDate are its
\* local calendar date, which Date.UTC turns into that day's UTC midnight.
\* None is an Invalid Date.
newDate(raw, tz) ==
    IF raw.zone = "invalid" THEN None
    ELSE LET t == raw.ms - (IF raw.zone = "local" THEN tz ELSE 0)
         IN Some(Date(raw.day + t \div MsPerDay, t % MsPerDay))
transactionDate(raw, tz) ==
    LET d == newDate(raw, tz)
    IN IF d = None THEN None
       ELSE Some(Date(Get(d).day + (Get(d).ms + tz) \div MsPerDay, 0))

\* h.orderNumber || undefined
orUndefined(str) == IF str = "" THEN None ELSE Some(str)

\* historyEntryToTransaction.  h.amount is None when the entry carries no
\* amount string (null or missing): h.amount.replace then throws a
\* TypeError, reported as [threw |-> TRUE].
historyEntryToTransaction(v, tz, h) ==
    IF h.amount = None
    THEN [threw |-> TRUE, error |-> "TypeError"]
    ELSE [threw |-> FALSE,
          value |-> [acct_num |-> h.acctNum,
                     date |-> transactionDate(h.date, tz),
                     description |-> h.description,
                     amount |-> amountOf(v, Get(h.amount)),
                     order_number |-> orUndefined(h.orderNumber),
                     pending |-> h.intradayInd]]

\* historys.map(h => historyEntryToTransaction(h)): the first throw ends it.
mapHistorysReversed(v, tz, historys) ==
    LET each == [i \in 1..Len(historys) |->
                    historyEntryToTransaction(v, tz,
                                              historys[Len(historys) + 1 - i])]
    IN IF \E i \in 1..Len(each) : each[i].threw
       THEN [threw |-> TRUE, error |-> "TypeError"]
       ELSE [threw |-> FALSE,
             value |-> [i \in 1..Len(each) |-> each[i].value]]
mapHistorys(v, tz, historys) ==
    LET each == [i \in 1..Len(historys) |->
                    historyEntryToTransaction(v, tz, historys[i])]
    IN IF \E i \in 1..Len(each) : each[i].threw
       THEN [threw |-> TRUE, error |-> "TypeError"]
       ELSE [threw |-> FALSE,
             value |-> [i \in 1..Len(each) |-> each[i].value]]

\* -------------------------------------------------------------- requests
\* encodeAccountName: base64 of the UTF-8 bytes of the name.  A name is its
\* byte sequence; the result is the sequence of base64 digit values (0..63,
\* and 64 for the padding character "=").
RECURSIVE encodeAccountName(_)
encodeAccountName(bytes) ==
    IF bytes = <<>> THEN <<>>
    ELSE LET n == Len(bytes)
             b1 == bytes[1]
             b2 == IF n >= 2 THEN bytes[2] ELSE 0
             b3 == IF n >= 3 THEN bytes[3] ELSE 0
         IN << b1 \div 4,
               (b1 % 4) * 16 + b2 \div 16,
               IF n >= 2 THEN (b2 % 16) * 4 + b3 \div 64 ELSE 64,
               IF n >= 3 THEN b3 % 64 ELSE 64 >>
            \o encodeAccountName(SubSeq(bytes, 4, n))

\* The template context of getTransactionsBody.
transactionsBodyContext(accts, start, end) ==
    [accounts |-> [i \in 1..Len(accts) |->
                      [number |-> accts[i].number,
                       name |-> encodeAccountName(accts[i].name),
                       last |-> i = Len(accts)]],
     start |-> fidelityDate(start),
     end |-> fidelityDate(end)]

\* The request body rendered from the body template and parsed (the
\* template files are not part of the sources): the account list in context
\* order and the two epoch-seconds strings under
\* variables.searchCriteriaDetail.
renderTransactionsBody(context) ==
    [variables |->
        [acctDetailList |-> [i \in 1..Len(context.accounts) |->
                                [acctNum |-> context.accounts[i].number,
                                 name |-> context.accounts[i].name]],
         searchCriteriaDetail |-> [txnFromDate |-> context.start,
                                   txnToDate |-> context.end]]]

getTransactionsBody(accts, start, end) ==
    renderTransactionsBody(transactionsBodyContext(accts, start, end))

\* JSON texts.  A text is a sequence of pieces: a piece is one of the
\* characters JSON gives a meaning to (the quote, the backslash, braces,
\* brackets, colon, comma), any other single character, or a run of
\* characters none of which is a quote or a backslash (a key, an account
\* number).
Quote == "\""
Backslash == "\\"
Base64Alphabet ==
    << "A", "B", "C", "D", "E", "F", "G", "H", "I", "J", "K", "L", "M",
       "N", "O", "P", "Q", "R", "S", "T", "U", "V", "W", "X", "Y", "Z",
       "a", "b", "c", "d", "e", "f", "g", "h", "i", "j", "k", "l", "m",
       "n", "o", "p", "q", "r", "s", "t", "u", "v", "w", "x", "y", "z",
       "0", "1", "2", "3", "4", "5", "6", "7", "8", "9", "+", "/", "=" >>
\* The characters of a base64 string given as digit values.
base64Text(digits) == [i \in 1..Len(digits) |-> Base64Alphabet[digits[i] + 1]]

\* JSON.stringify of a string: the quote and the backslash are escaped with
\* a backslash, and the whole is put between quotes.
RECURSIVE escape(_)
escape(str) ==
    IF Len(str) = 0 THEN <<>>
    ELSE IF Len(str) = 1
         THEN IF str[1] \in {Quote, Backslash} THEN <<Backslash, str[1]>>
              ELSE str
    ELSE LET half == Len(str) \div 2
         IN escape(SubSeq(str, 1, half)) \o escape(SubSeq(str, half + 1, Len(str)))
stringifyString(str) == <<Quote>> \o escape(str) \o <<Quote>>

\* JSON.stringify of the request body: members in the order of the object.
stringifyMember(key, text) == stringifyString(<<key>>) \o <<":">> \o text
stringifyAcctDetail(a) ==
    <<"{">> \o stringifyMember("acctNum", stringifyString(<<a.acctNum>>))
        \o <<",">> \o stringifyMember("name", stringifyString(base64Text(a.name)))
        \o <<"}">>
RECURSIVE stringifyAcctDetails(_, _)
stringifyAcctDetails(list, i) ==
    IF i > Len(list) THEN <<>>
    ELSE (IF i > 1 THEN <<",">> ELSE <<>>) \o stringifyAcctDetail(list[i])
            \o stringifyAcctDetails(list, i + 1)
stringifyBody(body) ==
    LET v == body.variables
        detail ==
            <<"{">> \o stringifyMember("txnFromDate",
                           stringifyString(v.searchCriteriaDetail.txnFromDate))
                \o <<",">> \o stringifyMember("txnToDate",
                           stringifyString(v.searchCriteriaDetail.txnToDate))
                \o <<"}">>
        variables ==
            <<"{">> \o stringifyMember("acctDetailList",
                           <<"[">> \o stringifyAcctDetails(v.acctDetailList, 1)
                                   \o <<"]">>)
                \o <<",">> \o stringifyMember("searchCriteriaDetail", detail)
                \o <<"}">>
    IN <<"{">> \o stringifyMember("variables", variables) \o <<"}">>

\* JSON.parse on texts of strings, objects and arrays.  A parsed value is
\* [t |-> "str", s |-> pieces], [t |-> "obj", m |-> entries in order] or
\* [t |-> "arr", a |-> values]; a text that is not JSON is a SyntaxError.
JString(s) == [t |-> "str", s |-> s]
JObject(m) == [t |-> "obj", m |-> m]
JArray(a) == [t |-> "arr", a |-> a]
SyntaxError == [ok |-> FALSE, v |-> [t |-> "SyntaxError"], next |-> 0]
Parsed(v, next) == [ok |-> TRUE, v |-> v, next |-> next]

\* The number of consecutive backslashes right before position j.
BackslashesBefore(text, j) ==
    CHOOSE n \in 0..(j - 1) :
        /\ \A m \in 1..n : text[j - m] = Backslash
        /\ n = j - 1 \/ text[j - n - 1] # Backslash
\* Position j starts an escape: a backslash that is not itself escaped.
StartsEscape(text, j) ==
    text[j] = Backslash /\ BackslashesBefore(text, j) % 2 = 0
\* Position j closes a string literal: a quote that is not escaped.
ClosesString(text, j) ==
    text[j] = Quote /\ BackslashesBefore(text, j) % 2 = 0
\* The pieces of text[lo..hi] without the backslashes that start escapes.
RECURSIVE unescape(_, _, _)
unescape(text, lo, hi) ==
    IF lo > hi THEN <<>>
    ELSE IF lo = hi
         THEN IF StartsEscape(text, lo) THEN <<>> ELSE <<text[lo]>>
    ELSE LET mid == (lo + hi) \div 2
         IN unescape(text, lo, mid) \o unescape(text, mid + 1, hi)
\* A string literal whose first piece after the opening quote is text[i].
\* The escapes are those of the quote and the backslash.
parseStringFrom(text, i) ==
    IF \A j \in i..Len(text) : ~ClosesString(text, j) THEN SyntaxError
    ELSE LET close == CHOOSE j \in i..Len(text) :
                          /\ ClosesString(text, j)
                          /\ \A k \in i..(j - 1) : ~ClosesString(text, k)
         IN IF \E k \in i..(close - 1) :
                  StartsEscape(text, k) /\ text[k + 1] \notin {Quote, Backslash}
            THEN SyntaxError
            ELSE Parsed(JString(unescape(text, i, close - 1)), close + 1)

RECURSIVE parseValue(_, _)
RECURSIVE parseMembers(_, _, _)
RECURSIVE parseElements(_, _, _)
parseValue(text, i) ==
    IF i > Len(text) THEN SyntaxError
    ELSE IF text[i] = Quote THEN parseStringFrom(text, i + 1)
    ELSE IF text[i] = "{"
         THEN IF i < Len(text) /\ text[i + 1] = "}"
              THEN Parsed(JObject(<<>>), i + 2)
              ELSE parseMembers(text, i + 1, <<>>)
    ELSE IF text[i] = "["
         THEN IF i < Len(text) /\ text[i + 1] = "]"
              THEN Parsed(JArray(<<>>), i + 2)
              ELSE parseElements(text, i + 1, <<>>)
    ELSE SyntaxError
parseMembers(text, i, acc) ==
    IF i > Len(text) \/ text[i] # Quote THEN SyntaxError
    ELSE LET key == parseStringFrom(text, i + 1)
         IN IF ~key.ok \/ key.next > Len(text) \/ text[key.next] # ":"
            THEN SyntaxError
            ELSE LET val == parseValue(text, key.next + 1)
                 IN IF ~val.ok \/ val.next > Len(text) THEN SyntaxError
                    ELSE IF text[val.next] = ","
                         THEN parseMembers(text, val.next + 1,
                                           MapSet(acc, key.v.s, val.v))
                    ELSE IF text[val.next] = "}"
                         THEN Parsed(JObject(MapSet(acc, key.v.s, val.v)),
                                     val.next + 1)
                    ELSE SyntaxError
parseElements(text, i, acc) ==
    LET val == parseValue(text, i)
    IN IF ~val.ok \/ val.next > Len(text) THEN SyntaxError
       ELSE IF text[val.next] = ","
            THEN parseElements(text, val.next + 1, Append(acc, val.v))
       ELSE IF text[val.next] = "]"
            THEN Parsed(JArray(Append(acc, val.v)), val.next + 1)
       ELSE SyntaxError
JSONparse(text) ==
    LET r == parseValue(text, 1)
    IN IF r.ok /\ r.next = Len(text) + 1 THEN r.v ELSE SyntaxError.v

\* The options rendered from the options template (not part of the
\* sources): a JSON object text in which the context's body is substituted
\* as it is for the value of "body".
renderTransactionsOptions(context) ==
    <<"{">> \o stringifyMember("method", stringifyString(<<"POST">>))
        \o <<",">> \o stringifyMember("body", context.body) \o <<"}">>

\* getTransactionsOptions: the fetch options; body is what JSON.parse made
\* of the two-fold JSON.stringify of the request body.
getTransactionsOptionsSingleEncoding(accts, start, end) ==
    LET context == [body |-> stringifyBody(getTransactionsBody(accts, start, end))]
        options == JSONparse(renderTransactionsOptions(context))
    IN [body |-> MapGet(options.m, <<"body">>)]
getTransactionsOptions(accts, start, end) ==
    LET context ==
            [body |-> stringifyString(
                          stringifyBody(getTransactionsBody(accts, start, end)))]
        options == JSONparse(renderTransactionsOptions(context))
    IN [body |-> MapGet(options.m, <<"body">>)]

\* ---------------------------------------------------------------- errors
FidelityError(kind, detail) ==
    [name |-> "FidelityError", kind |-> kind, detail |-> detail]
\* Whatever a rejecting evaluator throws: not a FidelityError.
EvaluatorRejection == [name |-> "Error", kind |-> "evaluator", detail |-> <<>>]
Threw(e) == [threw |-> TRUE, error |-> e]
Returned(v) == [threw |-> FALSE, value |-> v]

\* ----------------------------------------------------------------- fetch
\* What the evaluator gives back: it rejects, or it resolves to
\* {status, text?, json?}.
Rejects == [kind |-> "reject", status |-> 0, text |-> None, json |-> None]
Resolves(status, text, json) ==
    [kind |-> "resolve", status |-> status, text |-> text, json |-> json]

\* Fidelity.fetch after the evaluator settles: the rejection propagates as
\* it is; a status other than 200 is a FidelityError with status and text;
\* status 200 returns resp.json.
fetchAccepting2xx(resp) ==
    IF resp.kind = "reject" THEN Threw(EvaluatorRejection)
    ELSE IF resp.status < 200 \/ resp.status > 299
         THEN Threw(FidelityError("fetch failed", <<resp.status, resp.text>>))
         ELSE Returned(resp.json)
fetch(resp) ==
    IF resp.kind = "reject" THEN Threw(EvaluatorRejection)
    ELSE IF resp.status # 200
         THEN Threw(FidelityError("fetch failed", <<resp.status, resp.text>>))
         ELSE Returned(resp.json)

\* -------------------------------------------------------------- accounts
\* An account-list payload: None (undefined), or [data], where data is None
\* (the nested shape is absent) or [backend, assets]; an asset is
\* [acctNum, preferenceDetail], preferenceDetail None when it is missing.
accountMapOf(assets) ==
    LET RECURSIVE build(_, _)
        build(m, i) ==
            IF i > Len(assets) THEN m
            ELSE build(MapSet(m, assets[i].acctNum,
                              [number |-> assets[i].acctNum,
                               name |-> Get(assets[i].preferenceDetail)]),
                       i + 1)
    IN build(<<>>, 1)

\* The try block of fetchAccounts on the payload fetch returned.
parseAccountsCaseSensitive(respJson) ==
    IF respJson = None \/ Get(respJson).data = None
    THEN Threw(FidelityError("parse get_accounts", <<"TypeError">>))
    ELSE LET context == Get(Get(respJson).data)
         IN IF context.sysStatus # <<"o", "k">>
            THEN Threw(FidelityError("parse get_accounts",
                                     <<"backend not ok", context.sysStatus>>))
            ELSE IF \E i \in 1..Len(context.assets) :
                        context.assets[i].preferenceDetail = None
                 THEN Threw(FidelityError("parse get_accounts", <<"TypeError">>))
                 ELSE Returned(accountMapOf(context.assets))
parseAccounts(respJson) ==
    IF respJson = None \/ Get(respJson).data = None
    THEN Threw(FidelityError("parse get_accounts", <<"TypeError">>))
    ELSE LET context == Get(Get(respJson).data)
         IN IF toLowerCase(context.sysStatus) # <<"o", "k">>
            THEN Threw(FidelityError("parse get_accounts",
                                     <<"backend not ok", context.sysStatus>>))
            ELSE IF \E i \in 1..Len(context.assets) :
                        context.assets[i].preferenceDetail = None
                 THEN Threw(FidelityError("parse get_accounts", <<"TypeError">>))
                 ELSE Returned(accountMapOf(context.assets))

\* fetchAccounts resumed at its await of this.fetch, which settled as
\* `settled`: a rejection passes through (the await is outside the try
\* block), a payload goes through the try block.
fetchAccounts(settled) ==
    IF settled.threw THEN settled ELSE parseAccounts(settled.value)

\* ---------------------------------------------------------- transactions
\* A transaction payload: None, or [historys], historys None when
\* data.getTransactions.historys is absent.  The try block of
\* getTransactions on the payload fetch returned.
parseTransactions(v, tz, respJson) ==
    IF respJson = None \/ Get(respJson).historys = None
    THEN Threw(FidelityError("parse get_transactions", <<"TypeError">>))
    ELSE LET mapped == mapHistorys(v, tz, Get(Get(respJson).historys))
         IN IF mapped.threw
            THEN Threw(FidelityError("parse get_transactions", <<mapped.error>>))
            ELSE Returned(mapped.value)

\* ------------------------------------------------------------ the inputs
Variants == {"current", "legacy"}
\* Offsets of the process's local zone from UTC.
TzOffsets == {0 - 5 * MsPerHour, 0}

AcctIds == {"1234", "5678"}
RECURSIVE SeqsUpTo(_, _)
SeqsUpTo(S, n) ==
    IF n = 0 THEN {<<>>}
    ELSE SeqsUpTo(S, n - 1)
            \cup {Append(q, x) : q \in {r \in SeqsUpTo(S, n - 1) : Len(r) = n - 1},
                                 x \in S}
IdLists == SeqsUpTo(AcctIds, MaxIds)

DayA == DaysFromCivil(2025, 11, 28)
DayB == DaysFromCivil(2025, 12, 2)
\* The [start, end] arguments of the calls: a range of days, one day, a
\* start after the end, a time of day in the end, and one in the start.
DateRanges ==
    { <<Date(DayA, 0), Date(DayB, 0)>>,
      <<Date(DayA, 0), Date(DayA, 0)>>,
      <<Date(DayB, 0), Date(DayA, 0)>>,
      <<Date(DayA, 0), Date(DayA, 1)>>,
      <<Date(DayA, 1), Date(DayB, 0)>> }

\* Account names as UTF-8 bytes: "A" and "IRA".
NameA == <<65>>
NameIRA == <<73, 82, 65>>
Asset(num, name) == [acctNum |-> num, preferenceDetail |-> Some(name)]
AssetNoPreference(num) == [acctNum |-> num, preferenceDetail |-> None]
AccountsJson(status, assets) ==
    Some([data |-> Some([sysStatus |-> status, assets |-> assets])])
TwoAssets == <<Asset("1234", NameA), Asset("5678", NameIRA)>>
OneAsset == <<Asset("1234", NameIRA)>>
AccountsResponses ==
    { Rejects,
      Resolves(200, None, AccountsJson(<<"o", "k">>, TwoAssets)),
      Resolves(200, None, AccountsJson(<<"O", "K">>, OneAsset)),
      Resolves(200, None, AccountsJson(<<"O", "k">>, <<>>)),
      Resolves(200, None, AccountsJson(<<"d", "o", "w", "n">>, TwoAssets)),
      Resolves(200, None,
               AccountsJson(<<"o", "k">>,
                            <<Asset("1234", NameA), AssetNoPreference("5678")>>)),
      Resolves(200, None, Some([data |-> None])),
      Resolves(200, None, None),
      Resolves(201, None, AccountsJson(<<"o", "k">>, TwoAssets)),
      Resolves(500, Some("Internal Server Error"), None) }

RawDate(day, ms, zone) == [day |-> day, ms |-> ms, zone |-> zone]
Entry(acct, amount, date, orderNumber, intradayInd) ==
    [acctNum |-> acct, amount |-> amount, date |-> date,
     description |-> "DIVIDEND", intradayInd |-> intradayInd,
     orderNumber |-> orderNumber]
Settled ==
    Entry("1234", Some(<<"$", "1", ",", "2", "3", "4", ".", "5", "6">>),
          RawDate(DayA, 0, "local"), "24332ABCDE", FALSE)
Pending == Entry("1234", Some(<<>>), RawDate(DayB, 0, "utc"), "", TRUE)
Unparsable ==
    Entry("5678", Some(<<"N", "/", "A">>),
          RawDate(DayB, 20 * MsPerHour, "utc"), "77", FALSE)
NoAmount == Entry("5678", None, RawDate(DayA, 0, "invalid"), "78", FALSE)
Undated ==
    Entry("1234", Some(<<"1", ".", "0", "0">>), RawDate(DayA, 0, "invalid"),
          "79", FALSE)
TransactionsJson(historys) == Some([historys |-> Some(historys)])
TransactionsResponses ==
    { Rejects,
      Resolves(200, None, TransactionsJson(<<Settled, Pending>>)),
      Resolves(200, None, TransactionsJson(<<Unparsable, Settled>>)),
      Resolves(200, None, TransactionsJson(<<Settled, NoAmount>>)),
      Resolves(200, None, TransactionsJson(<<Undated>>)),
      Resolves(200, None, TransactionsJson(<<>>)),
      Resolves(200, None, Some([historys |-> None])),
      Resolves(200, None, None),
      Resolves(204, None, TransactionsJson(<<Settled>>)),
      Resolves(404, Some("Not Found"), None) }

\* ------------------------------------------------------------- the state
Slots == {1, 2}

VARIABLES
    variant,       \* which copy of the client runs
    tz,            \* the local zone's offset from UTC, in milliseconds
    accounts,      \* this.accounts: None (null) or Some(Map)
    calls,         \* per slot, the getTransactions call running in it
    nCalls,        \* calls started so far
    acctFetches,   \* account-list requests handed to the evaluator
    acctLoads,     \* account-list fetches that produced a mapping
    txnFetches,    \* transaction requests handed to the evaluator
    probe,         \* SpecAmount: a raw amount and what it is mapped to
    epochs         \* SpecDate: a day and the fidelityDate results around it

vars == <<variant, tz, accounts, calls, nCalls, acctFetches, acctLoads,
          txnFetches, probe, epochs>>

\* A call: where it is (pc), its arguments, the loop index i, acctDict,
\* how the promise its innermost suspended function awaits has settled
\* (got: Returned(value) or Threw(error)), what it gave the caller (result
\* or error), the accounts it passed to getTransactionsOptions (accts) and
\* the arguments of that call (request), the evaluator results it
\* received, how many requests of each kind it issued, and the cache as it
\* was when the call began.
\*
\* Every await of the code ends a step.  pc names what runs next:
\*   "awaitAccounts", "awaitTransactions": the evaluator has the request,
\*       and fetch resumes (lines 185-188) when it settles;
\*   "fetchAccounts": fetchAccounts resumes at line 213;
\*   "getAccounts": getAccounts resumes at line 208;
\*   "getAccount": getAccount resumes at line 200;
\*   "loop": getTransactions resumes at line 85, in its for loop;
\*   "getTransactions": getTransactions resumes at line 98;
\*   "returned", "threw": the promise of getTransactions has settled.
NoCall ==
    [pc |-> "idle", ids |-> <<>>, start |-> Date(0, 0), end |-> Date(0, 0),
     i |-> 0, acctDict |-> <<>>, got |-> None, result |-> None,
     error |-> None, accts |-> None, request |-> None, acctResp |-> None,
     txnResp |-> None,
     nAcct |-> 0, nTxn |-> 0, cacheBefore |-> None]

NoProbe == [raw |-> <<>>, applied |-> FALSE, amount |-> None]
NoEpochs == [day |-> 0, first |-> None, again |-> None, next |-> None]

Finished(call) == call.pc \in {"idle", "returned", "threw"}

Throw(call, e) == [call EXCEPT !.pc = "threw", !.error = Some(e)]

\* After the loop: fail on missing accounts, else build the options and
\* hand the transaction request to the evaluator.
\* Array.from(acctDict.values()).filter(a => a !== null)
acctsOf(call) ==
    LET present == SelectSeq(MapValues(call.acctDict), LAMBDA a : a # None)
    IN [j \in 1..Len(present) |-> Get(present[j])]
\* One account per identifier of the argument list, duplicates kept.
acctsPerIdentifier(call) ==
    LET present == SelectSeq(call.ids,
                             LAMBDA k : MapGet(call.acctDict, k) # None)
    IN [j \in 1..Len(present) |-> Get(MapGet(call.acctDict, present[j]))]
\* The request of a call is kept as the arguments getTransactionsOptions
\* is called with (it is a function of them alone); sentOptions is the
\* options object this.fetch hands to the evaluator.
sentOptions(call) ==
    getTransactionsOptions(Get(call.request).accounts, Get(call.request).start,
                           Get(call.request).end)
\* The request body object those options are built from.
sentBody(call) ==
    getTransactionsBody(Get(call.request).accounts, Get(call.request).start,
                        Get(call.request).end)
sendTransactionsRequest(call, accts) ==
    [call EXCEPT !.pc = "awaitTransactions",
                 !.accts = Some(accts),
                 !.request = Some([accounts |-> accts, start |-> call.start,
                                   end |-> call.end]),
                 !.nTxn = @ + 1]
afterLoopKeepingPartial(call) == sendTransactionsRequest(call, acctsOf(call))
afterLoopPerIdentifier(call) ==
    LET missing == SelectSeq(MapKeys(call.acctDict),
                             LAMBDA k : MapGet(call.acctDict, k) = None)
    IN IF Len(missing) > 0
       THEN Throw(call, FidelityError("accounts not found", missing))
       ELSE sendTransactionsRequest(call, acctsPerIdentifier(call))
afterLoop(call) ==
    LET missing == SelectSeq(MapKeys(call.acctDict),
                             LAMBDA k : MapGet(call.acctDict, k) = None)
    IN IF Len(missing) > 0
       THEN Throw(call, FidelityError("accounts not found", missing))
       ELSE sendTransactionsRequest(call, acctsOf(call))

\* getAccounts as called for the i-th identifier with the cache as it is:
\* a hit returns the cached Map, on which getAccount suspends; a miss hands
\* the account-list request to the evaluator.
getAccountsAlwaysFetch(call, i, cache) ==
    [call EXCEPT !.pc = "awaitAccounts", !.i = i, !.nAcct = @ + 1]
getAccounts(call, i, cache) ==
    IF cache # None
    THEN [call EXCEPT !.pc = "getAccount", !.i = i,
                      !.got = Some(Returned(Get(cache)))]
    ELSE [call EXCEPT !.pc = "awaitAccounts", !.i = i, !.nAcct = @ + 1]

\* The top of the for loop for index i.
enterLoop(call, i, cache) ==
    IF i > Len(call.ids) THEN afterLoop(call) ELSE getAccounts(call, i, cache)

\* getAccount's lookup: accounts.get(account) || null, an Account or None.
lookup(map, id) == IF MapHas(map, id) THEN Some(MapGet(map, id)) ELSE None

\* getAccount resumed with what getAccounts settled to: the lookup in that
\* Map, or the rejection passed on.
getAccount(call) ==
    LET settled == Get(call.got)
    IN [call EXCEPT
          !.pc = "loop",
          !.got = Some(IF settled.threw THEN settled
                       ELSE Returned(lookup(settled.value, call.ids[call.i])))]

\* The loop body resumed with what getAccount settled to: a rejection ends
\* the call; an Account or null is put into acctDict and the loop goes on
\* to the next index, with the cache as it is now.
resolved(call, cache) ==
    LET settled == Get(call.got)
    IN IF settled.threw THEN Throw(call, settled.error)
       ELSE enterLoop([call EXCEPT !.acctDict = MapSet(@, call.ids[call.i],
                                                       settled.value),
                                   !.got = None],
                      call.i + 1, cache)

\* The synchronous start of getTransactions, up to its first await.
begin(v, ids, start, end, cache) ==
    LET call == [NoCall EXCEPT !.ids = ids, !.start = start, !.end = end,
                               !.cacheBefore = cache]
        msgs == dateMessage(v, start, end)
    IN IF Len(msgs) > 0
       THEN Throw(call, FidelityError("invalid dates", msgs))
       ELSE enterLoop(call, 1, cache)

\* What a step that replaces slot c's call by `new` does to the counters.
Count(c, new) ==
    /\ calls' = [calls EXCEPT ![c] = new]
    /\ acctFetches' = acctFetches + (calls'[c].nAcct - calls[c].nAcct)
    /\ txnFetches' = txnFetches + (calls'[c].nTxn - calls[c].nTxn)

\* ----------------------------------------------------------- the actions
\* getTransactions(ids, start, end) is called on a free slot.
StartCall(c, ids, start, end) ==
    /\ Finished(calls[c])
    /\ nCalls < MaxCalls
    /\ nCalls' = nCalls + 1
    /\ calls' = [calls EXCEPT ![c] = begin(variant, ids, start, end, accounts)]
    /\ acctFetches' = acctFetches + calls'[c].nAcct
    /\ txnFetches' = txnFetches + calls'[c].nTxn
    /\ UNCHANGED <<variant, tz, accounts, acctLoads, probe, epochs>>

\* getAccount resumes (line 200).
GetAccountResumes(c) ==
    /\ calls[c].pc = "getAccount"
    /\ Count(c, getAccount(calls[c]))
    /\ UNCHANGED <<variant, tz, accounts, nCalls, acctLoads, probe, epochs>>

\* getTransactions resumes in its loop (line 85): the next identifier's
\* getAccounts reads the cache as it is now, or the loop is over.
LoopResumes(c) ==
    /\ calls[c].pc = "loop"
    /\ Count(c, resolved(calls[c], accounts))
    /\ UNCHANGED <<variant, tz, accounts, nCalls, acctLoads, probe, epochs>>

\* The evaluator has settled the account-list request of slot c with resp
\* and fetch resumes (lines 185-188).
AccountsSettled(c, resp) ==
    /\ calls[c].pc = "awaitAccounts"
    /\ Count(c, [calls[c] EXCEPT !.pc = "fetchAccounts",
                                 !.acctResp = Some(resp),
                                 !.got = Some(fetch(resp))])
    /\ UNCHANGED <<variant, tz, accounts, nCalls, acctLoads, probe, epochs>>

\* fetchAccounts resumes (line 213).
FetchAccountsResumes(c) ==
    /\ calls[c].pc = "fetchAccounts"
    /\ Count(c, [calls[c] EXCEPT
                    !.pc = "getAccounts",
                    !.got = Some(fetchAccounts(Get(calls[c].got)))])
    /\ UNCHANGED <<variant, tz, accounts, nCalls, acctLoads, probe, epochs>>

\* getAccounts resumes (line 208): a Map is assigned to the cache and
\* this.accounts returned; a rejection passes through and leaves the cache.
cacheAfterFailedFetch(old, outcome) ==
    IF outcome.threw THEN Some(<<>>) ELSE Some(outcome.value)
cacheKeepingFirst(old, outcome) ==
    IF outcome.threw \/ old # None THEN old ELSE Some(outcome.value)
cacheAfterFetch(old, outcome) ==
    IF outcome.threw THEN old ELSE Some(outcome.value)
GetAccountsResumes(c) ==
    /\ calls[c].pc = "getAccounts"
    /\ LET outcome == Get(calls[c].got)
           cache == cacheAfterFetch(accounts, outcome)
       IN /\ accounts' = cache
          /\ acctLoads' = acctLoads + (IF outcome.threw THEN 0 ELSE 1)
          /\ Count(c, [calls[c] EXCEPT
                          !.pc = "getAccount",
                          !.got = Some(IF outcome.threw THEN outcome
                                       ELSE Returned(Get(cache)))])
    /\ UNCHANGED <<variant, tz, nCalls, probe, epochs>>

\* The evaluator has settled the transaction request of slot c with resp
\* and fetch resumes (lines 185-188).
TransactionsSettled(c, resp) ==
    /\ calls[c].pc = "awaitTransactions"
    /\ Count(c, [calls[c] EXCEPT !.pc = "getTransactions",
                                 !.txnResp = Some(resp),
                                 !.got = Some(fetch(resp))])
    /\ UNCHANGED <<variant, tz, accounts, nCalls, acctLoads, probe, epochs>>

\* getTransactions resumes (line 98) with what fetch settled to: a
\* rejection ends the call, a payload goes through the try block.
finishPartial(call, outcome) ==
    [call EXCEPT !.pc = "returned",
                 !.result = Some(IF outcome.threw THEN <<>> ELSE outcome.value)]
finishRetrying(call, outcome) ==
    IF outcome.threw
    THEN [call EXCEPT !.pc = "awaitTransactions", !.nTxn = @ + 1]
    ELSE [call EXCEPT !.pc = "returned", !.result = Some(outcome.value)]
finish(call, outcome) ==
    IF outcome.threw THEN Throw(call, outcome.error)
    ELSE [call EXCEPT !.pc = "returned", !.result = Some(outcome.value)]
getTransactionsOutcome(v, z, settled) ==
    IF settled.threw THEN settled
    ELSE parseTransactions(v, z, settled.value)
GetTransactionsResumes(c) ==
    /\ calls[c].pc = "getTransactions"
    /\ Count(c, finish(calls[c],
                       getTransactionsOutcome(variant, tz, Get(calls[c].got))))
    /\ UNCHANGED <<variant, tz, accounts, nCalls, acctLoads, probe, epochs>>

\* -------------------------------------------------------- specifications
Init ==
    /\ variant \in Variants
    /\ tz \in TzOffsets
    /\ accounts = None
    /\ calls = [c \in Slots |-> NoCall]
    /\ nCalls = 0
    /\ acctFetches = 0
    /\ acctLoads = 0
    /\ txnFetches = 0
    /\ probe = NoProbe
    /\ epochs = NoEpochs

\* Sequential use of one client: every call runs in slot 1, the next one
\* starting when the one before has returned or thrown.
Next ==
    \/ \E ids \in IdLists, range \in DateRanges :
            StartCall(1, ids, range[1], range[2])
    \/ GetAccountResumes(1)
    \/ LoopResumes(1)
    \/ \E resp \in AccountsResponses : AccountsSettled(1, resp)
    \/ FetchAccountsResumes(1)
    \/ GetAccountsResumes(1)
    \/ \E resp \in TransactionsResponses : TransactionsSettled(1, resp)
    \/ GetTransactionsResumes(1)

Spec == Init /\ [][Next]_vars

\* The amount mapping on its own: Init draws a raw amount string, the
\* action maps a history entry carrying it.  The strings are all those of
\* at most MaxLen characters over AmountChars, and the examples, among
\* them decimals that end in half a cent.
AmountChars == {"$", ",", ".", "-", " ", "0", "1", "5", "6", "N"}
AmountExamples ==
    { <<"$", "1", ",", "2", "3", "4", ".", "5", "6">>,
      <<"N", "/", "A">>,
      <<"-", "$", "1", "2", ".", "3", "4", "9">>,
      <<" ", "$", " ">>,
      <<"1", ".", "0", "0", "5">>,
      <<"2", ".", "6", "7", "5">>,
      <<"-", "2", ".", "6", "7", "5">>,
      <<"$", "0", ".", "1", "4", "5">>,
      <<".", "5", "6", "5">> }
AmountInputs == SeqsUpTo(AmountChars, MaxLen) \cup AmountExamples

InitAmount ==
    /\ variant \in Variants
    /\ tz = 0
    /\ accounts = None
    /\ calls = [c \in Slots |-> NoCall]
    /\ nCalls = 0
    /\ acctFetches = 0
    /\ acctLoads = 0
    /\ txnFetches = 0
    /\ probe \in {[NoProbe EXCEPT !.raw = raw] : raw \in AmountInputs}
    /\ epochs = NoEpochs

MapAmount ==
    /\ ~probe.applied
    /\ probe' = [probe EXCEPT
                    !.applied = TRUE,
                    !.amount = historyEntryToTransaction(
                                   variant, tz,
                                   Entry("1234", Some(probe.raw),
                                         RawDate(DayA, 0, "local"), "",
                                         TRUE)).value.amount]
    /\ UNCHANGED <<variant, tz, accounts, calls, nCalls, acctFetches,
                   acctLoads, txnFetches, epochs>>

NextAmount == MapAmount

SpecAmount == InitAmount /\ [][NextAmount]_vars

\* The request on its own: one getTransactions call on a client whose cache
\* is loaded, over ranges of days that include the daylight-saving
\* transitions of 2025.  The step that counts the transaction request records
\* its arguments in the call, and sentOptions gives the options this.fetch
\* hands to the evaluator in that same step.
RequestDays ==
    { DaysFromCivil(2025, 3, 9), DaysFromCivil(2025, 3, 10),
      DaysFromCivil(2025, 11, 2), DaysFromCivil(2025, 11, 3), DayA, DayB }
RequestDates == {Date(day, 0) : day \in RequestDays} \cup {Date(DayA, 1)}

InitRequest ==
    /\ variant \in Variants
    /\ tz = 0
    /\ accounts = Some(accountMapOf(TwoAssets))
    /\ calls = [c \in Slots |-> NoCall]
    /\ nCalls = MaxCalls - 1
    /\ acctFetches = 1
    /\ acctLoads = 1
    /\ txnFetches = 0
    /\ probe = NoProbe
    /\ epochs = NoEpochs

NextRequest ==
    \/ \E ids \in IdLists, start \in RequestDates, end \in RequestDates :
            StartCall(1, ids, start, end)
    \/ GetAccountResumes(1)
    \/ LoopResumes(1)

SpecRequest == InitRequest /\ [][NextRequest]_vars

\* fidelityDate on its own: Init draws a calendar day, the actions convert
\* it, convert it once more, and convert the day after it.  The days are
\* those from 2007 (the daylight-saving rule NewYorkOffsetSeconds models) to
\* 2037 (epoch seconds within 32 bits).
FirstDay == DaysFromCivil(2007, 1, 1)
LastDay == DaysFromCivil(2037, 12, 30)
InitDate ==
    /\ variant = "current"
    /\ tz = 0
    /\ accounts = None
    /\ calls = [c \in Slots |-> NoCall]
    /\ nCalls = 0
    /\ acctFetches = 0
    /\ acctLoads = 0
    /\ txnFetches = 0
    /\ probe = NoProbe
    /\ epochs \in {[NoEpochs EXCEPT !.day = day] : day \in FirstDay..LastDay}

ConvertDay ==
    /\ epochs.first = None
    /\ epochs' = [epochs EXCEPT !.first = Some(fidelityDate(Date(epochs.day, 0)))]
    /\ UNCHANGED <<variant, tz, accounts, calls, nCalls, acctFetches,
                   acctLoads, txnFetches, probe>>
ConvertAgain ==
    /\ epochs.first # None
    /\ epochs.again = None
    /\ epochs' = [epochs EXCEPT !.again = Some(fidelityDate(Date(epochs.day, 0)))]
    /\ UNCHANGED <<variant, tz, accounts, calls, nCalls, acctFetches,
                   acctLoads, txnFetches, probe>>
ConvertNextDay ==
    /\ epochs.first # None
    /\ epochs.next = None
    /\ epochs' = [epochs EXCEPT
                    !.next = Some(fidelityDate(Date(epochs.day + 1, 0)))]
    /\ UNCHANGED <<variant, tz, accounts, calls, nCalls, acctFetches,
                   acctLoads, txnFetches, probe>>

NextDate == ConvertDay \/ ConvertAgain \/ ConvertNextDay

SpecDate == InitDate /\ [][NextDate]_vars

\* Overlapping use of one client: a call may start in either slot while the
\* call of the other slot is suspended, and the suspended calls resume in
\* any order.
OverlapIdLists == {<<"1234">>, <<"1234", "5678">>}
OverlapAccountsResponses ==
    { Rejects,
      Resolves(200, None, AccountsJson(<<"o", "k">>, TwoAssets)),
      Resolves(200, None, AccountsJson(<<"O", "K">>, OneAsset)) }
OverlapTransactionsResponses ==
    { Resolves(200, None, TransactionsJson(<<Settled, Pending>>)),
      Resolves(404, Some("Not Found"), None) }
NextOverlap ==
    \E c \in Slots :
        \/ \E ids \in OverlapIdLists :
                StartCall(c, ids, Date(DayA, 0), Date(DayB, 0))
        \/ GetAccountResumes(c)
        \/ LoopResumes(c)
        \/ \E resp \in OverlapAccountsResponses : AccountsSettled(c, resp)
        \/ FetchAccountsResumes(c)
        \/ GetAccountsResumes(c)
        \/ \E resp \in OverlapTransactionsResponses : TransactionsSettled(c, resp)
        \/ GetTransactionsResumes(c)

SpecOverlap == Init /\ [][NextOverlap]_vars

\* ------------------------------------------------- vocabulary of claims
\* A Date with a non-zero UTC hour, minute, second or millisecond.
HasTimeOfDay(d) == d.ms # 0
Started(call) == call.pc # "idle"
ThrewKind(call, kind) ==
    /\ call.pc = "threw"
    /\ Get(call.error).name = "FidelityError"
    /\ Get(call.error).kind = kind
\* The promise of getTransactions has settled.
Ended(call) == call.pc \in {"returned", "threw"}
\* A function of the call has thrown and the rejection is on its way to
\* the caller: no await between them is inside a try block.
Rejected(call) ==
    /\ call.pc \in {"fetchAccounts", "getAccounts", "getAccount", "loop",
                    "getTransactions"}
    /\ call.got # None
    /\ Get(call.got).threw
\* The failure of a call: the error it threw, or the one on its way.
Failure(call) ==
    IF call.pc = "threw" THEN call.error
    ELSE IF Rejected(call) THEN Some(Get(call.got).error)
    ELSE None
FailsKind(call, kind) ==
    /\ Failure(call) # None
    /\ Get(Failure(call)).name = "FidelityError"
    /\ Get(Failure(call)).kind = kind
\* The identifiers of a list, each once, in order of first occurrence.
RECURSIVE FirstOccurrences(_)
FirstOccurrences(ids) ==
    IF ids = <<>> THEN <<>>
    ELSE LET before == FirstOccurrences(SubSeq(ids, 1, Len(ids) - 1))
         IN IF ids[Len(ids)] \in Range(before) THEN before
            ELSE Append(before, ids[Len(ids)])
\* The keys of a cached account Map.
CachedNumbers(cache) == {Get(cache)[i].k : i \in 1..Len(Get(cache))}
\* The call went through its whole resolution loop.
LoopDone(call) ==
    /\ call.pc \in {"awaitTransactions", "getTransactions", "returned", "threw"}
    /\ Len(dateMessage(variant, call.start, call.end)) = 0
    /\ \A id \in Range(call.ids) : MapHas(call.acctDict, id)
\* An account-list result from which no mapping can be built.
FailingAccountsResponse(resp) ==
    \/ resp.kind = "reject"
    \/ resp.status # 200
    \/ resp.json = None
    \/ Get(resp.json).data = None
    \/ Get(Get(resp.json).data).sysStatus
          \notin {<<"o", "k">>, <<"O", "K">>, <<"O", "k">>, <<"o", "K">>}
    \/ \E a \in Range(Get(Get(resp.json).data).assets) : a.preferenceDetail = None
\* The cache is the whole mapping of the account-list result resp: its keys
\* are the account numbers listed, each with the name listed last for it.
IsMappingOf(cache, resp) ==
    LET assets == Get(Get(resp.json).data).assets
    IN /\ CachedNumbers(cache) = {a.acctNum : a \in Range(assets)}
       /\ Len(Get(cache)) = Cardinality(CachedNumbers(cache))
       /\ \A e \in Range(Get(cache)) :
             /\ e.v.number = e.k
             /\ \E i \in 1..Len(assets) :
                   /\ assets[i].acctNum = e.k
                   /\ Get(assets[i].preferenceDetail) = e.v.name
                   /\ \A j \in (i + 1)..Len(assets) : assets[j].acctNum # e.k

\* What the evaluator reads in the options it was called with, as the
\* test's MockEvaluator does: JSON.parse(body), and members of the result.
Member(obj, key) == MapGet(obj.m, <<key>>)
HasMember(obj, key) == obj.t = "obj" /\ MapHas(obj.m, <<key>>)

\* ---------------------------------------------------------------- claims
\* C1: a getTransactions call whose start or end has a non-zero UTC time
\* component fails with the date validation error, hands nothing to the
\* evaluator (no account-list request, no transaction request) and leaves
\* the account cache as it was.
C1_TimeComponentRejected ==
    \A c \in Slots :
        LET call == calls[c]
        IN (Started(call) /\ (HasTimeOfDay(call.start) \/ HasTimeOfDay(call.end)))
            => /\ ThrewKind(call, "invalid dates")
               /\ call.nAcct = 0
               /\ call.nTxn = 0
               /\ call.request = None
               /\ accounts = call.cacheBefore
\* C1 witness: a call with a time component in its end date only, made on a
\* client whose cache is populated, has thrown.
C1_Witness ==
    /\ calls[1].pc = "threw"
    /\ ~HasTimeOfDay(calls[1].start)
    /\ HasTimeOfDay(calls[1].end)
    /\ calls[1].cacheBefore # None
    /\ calls[1].ids # <<>>

\* C2: a call whose dates are both exact midnights but whose start is later
\* than its end fails with the date validation error and hands nothing to
\* the evaluator.
C2_OutOfOrderRejected ==
    \A c \in Slots :
        LET call == calls[c]
        IN (/\ Started(call)
            /\ ~HasTimeOfDay(call.start)
            /\ ~HasTimeOfDay(call.end)
            /\ DateGT(call.start, call.end))
            => /\ ThrewKind(call, "invalid dates")
               /\ call.nAcct = 0
               /\ call.nTxn = 0
\* The same statement for the legacy copy alone, which holds: there
\* checkStartEnd reports "start > end".
C2_OutOfOrderRejectedLegacy == variant = "legacy" => C2_OutOfOrderRejected

\* C3: when a call with a valid date range has gone through account
\* resolution and some identifier is not a key of the account list, the
\* call has failed with the accounts-not-found error naming exactly the
\* missing identifiers (each once, in order of first occurrence), and no
\* transaction request was issued, even when other identifiers resolve.
MissingIds(call) ==
    SelectSeq(FirstOccurrences(call.ids),
              LAMBDA id : id \notin CachedNumbers(accounts))
C3_MissingAccountsRejected ==
    \A c \in Slots :
        LET call == calls[c]
        IN (LoopDone(call) /\ accounts # None /\ MissingIds(call) # <<>>)
            => /\ ThrewKind(call, "accounts not found")
               /\ Get(call.error).detail = MissingIds(call)
               /\ call.nTxn = 0
               /\ call.request = None
\* C3 witness: a call with one identifier that resolves and one that does
\* not has failed naming the missing one.
C3_Witness ==
    /\ ThrewKind(calls[1], "accounts not found")
    /\ Len(calls[1].ids) = 2
    /\ Len(Get(calls[1].error).detail) = 1
    /\ \E id \in Range(calls[1].ids) : id \in CachedNumbers(accounts)

\* C4: on one client used sequentially, once an account-list fetch has
\* succeeded the cache holds its mapping for good: exactly one fetch has
\* loaded it, no further account-list request is ever issued, and every
\* later identifier is resolved without one.
C4_FetchedOnce ==
    /\ [](accounts # None => acctLoads = 1)
    /\ [][accounts # None =>
            /\ accounts' = accounts
            /\ acctFetches' = acctFetches
            /\ acctLoads' = acctLoads
            /\ \A c \in Slots : calls'[c].pc # "awaitAccounts"]_vars
\* C4 witness: a second call with two identifiers has resolved both from
\* the cache the first call loaded; one account-list request in all.
C4_Witness ==
    /\ nCalls = 2
    /\ acctFetches = 1
    /\ calls[1].cacheBefore # None
    /\ Len(calls[1].ids) = 2
    /\ calls[1].ids[1] # calls[1].ids[2]
    /\ calls[1].pc = "awaitTransactions"
    /\ calls[1].nAcct = 0

\* C5: the cache is unset or the whole mapping of one successful
\* account-list result; a call whose account-list fetch failed made exactly
\* one attempt, issued no transaction request and left the cache unset, and
\* once fetchAccounts has read the result the call is failing (it has
\* thrown, or the rejection is on its way to the caller); and a call that
\* needs the accounts while the cache is unset issues its own account-list
\* request.
C5_CacheAllOrNothing ==
    /\ accounts # None =>
          \E resp \in AccountsResponses :
              ~FailingAccountsResponse(resp) /\ IsMappingOf(accounts, resp)
    /\ \A c \in Slots :
          LET call == calls[c]
          IN /\ (call.acctResp # None /\ FailingAccountsResponse(Get(call.acctResp)))
                  => /\ call.pc # "fetchAccounts" => Failure(call) # None
                     /\ call.nAcct = 1
                     /\ call.nTxn = 0
                     /\ call.cacheBefore = None
                     /\ accounts = None
             /\ (/\ Started(call)
                 /\ call.cacheBefore = None
                 /\ call.ids # <<>>
                 /\ ~ThrewKind(call, "invalid dates"))
                  => call.nAcct = 1
\* C5 witness: after a call whose account-list fetch failed, the next call
\* has issued a fresh account-list request that failed too, and the cache
\* is still unset.
C5_Witness ==
    /\ nCalls = 2
    /\ acctFetches = 2
    /\ accounts = None
    /\ calls[1].acctResp # None
    /\ Get(calls[1].acctResp).kind = "resolve"
    /\ Get(calls[1].acctResp).status = 200
    /\ calls[1].pc = "threw"

\* C6: an evaluator result whose status is not exactly 200 (other 2xx
\* included) makes the fetch fail with the network error carrying that
\* status and the result's text, and its payload reaches no parsing: no
\* mapping is cached from it and no transactions are returned from it.  A
\* result with status 200 never produces the network error.  The error is
\* the call's failure from the moment fetch has read the result: the one
\* it has thrown, or the rejection on its way to the caller.
IsFetchFailure(call, resp) ==
    /\ FailsKind(call, "fetch failed")
    /\ Get(Failure(call)).detail = <<resp.status, resp.text>>
C6_Only200Accepted ==
    \A c \in Slots :
        LET call == calls[c]
        IN /\ (call.acctResp # None /\ Get(call.acctResp).kind = "resolve")
                => IF Get(call.acctResp).status # 200
                   THEN /\ IsFetchFailure(call, Get(call.acctResp))
                        /\ accounts = call.cacheBefore
                        /\ call.acctDict = <<>>
                        /\ call.nTxn = 0
                   ELSE ~(FailsKind(call, "fetch failed") /\ call.nTxn = 0)
           /\ (call.txnResp # None /\ Get(call.txnResp).kind = "resolve")
                => IF Get(call.txnResp).status # 200
                   THEN /\ IsFetchFailure(call, Get(call.txnResp))
                        /\ call.result = None
                   ELSE ~FailsKind(call, "fetch failed")
\* C6 witness: a transaction result with status 204 and a well-formed
\* payload has made the call fail.
C6_Witness ==
    /\ calls[1].txnResp # None
    /\ Get(calls[1].txnResp).status = 204
    /\ Get(calls[1].txnResp).json # None
    /\ calls[1].pc = "threw"

\* C7: a call that received a status-200 transaction result has its
\* payload from fetch and, once getTransactions has resumed, returns one
\* Transaction per entry of historys when the payload has the nested shape
\* and every entry can be mapped, and otherwise throws the parse error
\* wrapping the cause; a call never holds both a result and an error, and a
\* result never has fewer entries than historys.
Mappable(h) == h.amount # None
WellShaped(json) ==
    /\ json # None
    /\ Get(json).historys # None
    /\ \A h \in Range(Get(Get(json).historys)) : Mappable(h)
C7_AllOrError ==
    \A c \in Slots :
        LET call == calls[c]
        IN /\ (call.result # None) => (call.pc = "returned" /\ call.error = None)
           /\ (call.pc = "returned") => (call.result # None /\ call.txnResp # None)
           /\ (call.pc = "threw") => (call.result = None /\ call.error # None)
           /\ (/\ call.txnResp # None
               /\ Get(call.txnResp).kind = "resolve"
               /\ Get(call.txnResp).status = 200)
                => IF call.pc = "getTransactions"
                   THEN call.got = Some(Returned(Get(call.txnResp).json))
                   ELSE IF WellShaped(Get(call.txnResp).json)
                   THEN /\ call.pc = "returned"
                        /\ Len(Get(call.result))
                             = Len(Get(Get(Get(call.txnResp).json).historys))
                   ELSE /\ ThrewKind(call, "parse get_transactions")
                        /\ Len(Get(call.error).detail) = 1
\* C7 witness: a status-200 payload whose second entry cannot be mapped
\* (its first can) has made the whole call fail.
C7_Witness ==
    /\ calls[1].pc = "threw"
    /\ calls[1].txnResp # None
    /\ Get(calls[1].txnResp).json # None
    /\ Get(Get(calls[1].txnResp).json).historys # None
    /\ Len(Get(Get(Get(calls[1].txnResp).json).historys)) = 2
    /\ Mappable(Get(Get(Get(calls[1].txnResp).json).historys)[1])
    /\ ~Mappable(Get(Get(Get(calls[1].txnResp).json).historys)[2])

\* C8: every failure of getTransactions reaches the caller as a
\* FidelityError.
C8_AlwaysFidelityError ==
    \A c \in Slots :
        calls[c].pc = "threw" => Get(calls[c].error).name = "FidelityError"

\* C9 as stated: the accounts passed to the request builder are one per
\* input identifier, in input order, duplicates kept.
C9_OnePerIdentifier ==
    \A c \in Slots :
        LET call == calls[c]
        IN call.accts # None
            => /\ Len(Get(call.accts)) = Len(call.ids)
               /\ \A i \in 1..Len(call.ids) :
                     Get(call.accts)[i].number = call.ids[i]
\* C9 as amended: the accounts passed to the request builder are one per
\* distinct input identifier, in order of first occurrence (a repeated
\* identifier yields a single entry), each the cached Account of its
\* number; the request lists them in that order.
C9_OnePerDistinctIdentifier ==
    \A c \in Slots :
        LET call == calls[c]
            distinct == FirstOccurrences(call.ids)
        IN call.accts # None
            => /\ Len(Get(call.accts)) = Len(distinct)
               /\ \A i \in 1..Len(distinct) :
                     /\ Get(call.accts)[i].number = distinct[i]
                     /\ Get(call.accts)[i] \in {e.v : e \in Range(Get(accounts))}
                     /\ sentBody(call).variables.acctDetailList[i].acctNum
                          = distinct[i]
               /\ Len(sentBody(call).variables.acctDetailList) = Len(distinct)
\* C9 witness: a call that names the same identifier twice has sent a
\* request with one account.
C9_Witness ==
    /\ calls[1].accts # None
    /\ Len(calls[1].ids) = 2
    /\ calls[1].ids[1] = calls[1].ids[2]
    /\ Len(Get(calls[1].accts)) = 1

\* C10 (the current copy): the amount is the raw string without commas and
\* dollar signs, read as follows: blank gives no amount; no leading decimal
\* literal (after white space) gives no amount; otherwise the amount is
\* the value of the longest leading decimal literal rounded to two
\* decimal places: a number of cents within half a cent of it.  When the
\* literal ends in exactly half a cent the binary product decides which of
\* the two nearest values it is ("2.675" gives 2.68, "1.005" gives 1).  It
\* is never NaN; "$1,234.56" gives 1234.56, "-$12.349" gives -12.35 and "0"
\* gives the present value 0.
Blank(str) == \A i \in 1..Len(str) : str[i] \in WhiteSpace
WithoutLeadingSpace(str) ==
    IF Blank(str) THEN <<>>
    ELSE SubSeq(str, CHOOSE j \in 1..Len(str) :
                        /\ str[j] \notin WhiteSpace
                        /\ \A i \in 1..(j - 1) : str[i] \in WhiteSpace,
                Len(str))
Unsigned(lit) == IF lit # <<>> /\ lit[1] \in {"+", "-"} THEN Tail(lit) ELSE lit
IsDecimalLiteral(lit) ==
    /\ \A i \in 1..Len(Unsigned(lit)) : Unsigned(lit)[i] \in Digits \cup {"."}
    /\ Cardinality({i \in 1..Len(Unsigned(lit)) : Unsigned(lit)[i] = "."}) <= 1
    /\ \E i \in 1..Len(Unsigned(lit)) : Unsigned(lit)[i] \in Digits
LiteralLengths(str) ==
    {k \in 1..Len(str) : IsDecimalLiteral(SubSeq(str, 1, k))}
LongestLiteral(str) ==
    SubSeq(str, 1, CHOOSE k \in LiteralLengths(str) :
                       \A j \in LiteralLengths(str) : j <= k)
\* A literal's value is Numerator / Denominator.
RECURSIVE SumDigits(_, _)
SumDigits(ds, i) ==
    IF i > Len(ds) THEN 0
    ELSE DigitVal(ds[i]) * Pow10(Len(ds) - i) + SumDigits(ds, i + 1)
Denominator(lit) ==
    LET u == Unsigned(lit)
    IN IF \E i \in 1..Len(u) : u[i] = "."
       THEN Pow10(Len(u) - (CHOOSE i \in 1..Len(u) : u[i] = "."))
       ELSE 1
Numerator(lit) ==
    (IF lit[1] = "-" THEN -1 ELSE 1)
        * SumDigits(SelectSeq(Unsigned(lit), LAMBDA ch : ch # "."), 1)
\* cents / 100 is num / den rounded to two places: cents is within half a
\* cent of 100 * num / den.  A decimal that ends in exactly half a cent has
\* two such values.
IsRoundedToCents(cents, num, den) ==
    /\ (2 * cents - 1) * den <= 200 * num
    /\ 200 * num <= (2 * cents + 1) * den
C10_AmountMapping ==
    (probe.applied /\ variant = "current") =>
        LET stripped == SelectSeq(probe.raw, LAMBDA ch : ch \notin {",", "$"})
            text == WithoutLeadingSpace(stripped)
            amount == probe.amount
        IN /\ amount # None => ~Get(amount).nan
           /\ Blank(stripped) => amount = None
           /\ (~Blank(stripped) /\ LiteralLengths(text) = {}) => amount = None
           /\ (~Blank(stripped) /\ LiteralLengths(text) # {})
                => /\ amount # None
                   /\ IsRoundedToCents(Get(amount).cents,
                                       Numerator(LongestLiteral(text)),
                                       Denominator(LongestLiteral(text)))
           /\ probe.raw = <<"$", "1", ",", "2", "3", "4", ".", "5", "6">>
                => amount = Some([nan |-> FALSE, cents |-> 123456])
           /\ probe.raw = <<"0">> => amount = Some([nan |-> FALSE, cents |-> 0])
           /\ probe.raw = <<"-", "$", "1", "2", ".", "3", "4", "9">>
                => amount = Some([nan |-> FALSE, cents |-> -1235])
           /\ probe.raw = <<"2", ".", "6", "7", "5">>
                => amount = Some([nan |-> FALSE, cents |-> 268])
           /\ probe.raw = <<"1", ".", "0", "0", "5">>
                => amount = Some([nan |-> FALSE, cents |-> 100])
\* C10 witness: the current copy has mapped a raw amount that strips to a
\* non-blank string with no number in it, and the amount is absent.
C10_Witness ==
    /\ probe.applied
    /\ variant = "current"
    /\ probe.raw = <<"N", "/", "A">>
    /\ probe.amount = None
\* The legacy copy differs here, as its source shows: the same raw amount
\* gives NaN there.
C10_LegacyGivesNaN ==
    (probe.applied /\ variant = "legacy" /\ probe.raw = <<"N", "/", "A">>)
        => (probe.amount # None /\ Get(probe.amount).nan)

\* C11: a call that returned gives one Transaction per entry of the upstream
\* historys, in upstream order: the i-th Transaction has the account number
\* and description of the i-th entry, no order number exactly when the
\* entry's orderNumber is empty (and that orderNumber otherwise), and the
\* entry's intradayInd as its pending flag.
UpstreamHistorys(call) == Get(Get(Get(call.txnResp).json).historys)
C11_UpstreamOrderAndFields ==
    \A c \in Slots :
        LET call == calls[c]
        IN call.pc = "returned"
            => /\ Len(Get(call.result)) = Len(UpstreamHistorys(call))
               /\ \A i \in 1..Len(UpstreamHistorys(call)) :
                     LET t == Get(call.result)[i]
                         h == UpstreamHistorys(call)[i]
                     IN /\ t.acct_num = h.acctNum
                        /\ t.description = h.description
                        /\ (t.order_number = None) <=> (h.orderNumber = "")
                        /\ h.orderNumber # "" => t.order_number = Some(h.orderNumber)
                        /\ t.pending = h.intradayInd
\* C11 witness: a call returned two Transactions from two entries that
\* differ in order number and pending flag, the first with an order number
\* and the second, pending, without.
C11_Witness ==
    /\ calls[1].pc = "returned"
    /\ Len(Get(calls[1].result)) = 2
    /\ ~Get(calls[1].result)[1].pending
    /\ Get(calls[1].result)[1].order_number # None
    /\ Get(calls[1].result)[2].order_number = None
    /\ Get(calls[1].result)[2].pending

\* C12: the options the evaluator receives with the transaction request of
\* a call have a string body; parsed as JSON it is an object whose
\* variables.searchCriteriaDetail.txnFromDate and txnToDate are the epoch
\* seconds, as decimal strings, of midnight America/New_York on the UTC
\* calendar days of start and end (2025-11-28 gives "1764306000" and
\* 2025-12-02 gives "1764651600"); the two-fold JSON encoding leaves them
\* as fidelityDate produced them.
NewYorkMidnight(day) ==
    CASE day = DaysFromCivil(2025, 3, 9) ->
            <<"1", "7", "4", "1", "4", "9", "6", "4", "0", "0">>
      [] day = DaysFromCivil(2025, 3, 10) ->
            <<"1", "7", "4", "1", "5", "7", "9", "2", "0", "0">>
      [] day = DaysFromCivil(2025, 11, 2) ->
            <<"1", "7", "6", "2", "0", "5", "6", "0", "0", "0">>
      [] day = DaysFromCivil(2025, 11, 3) ->
            <<"1", "7", "6", "2", "1", "4", "6", "0", "0", "0">>
      [] day = DaysFromCivil(2025, 11, 28) ->
            <<"1", "7", "6", "4", "3", "0", "6", "0", "0", "0">>
      [] day = DaysFromCivil(2025, 12, 2) ->
            <<"1", "7", "6", "4", "6", "5", "1", "6", "0", "0">>
C12_RequestDates ==
    calls[1].request # None =>
        LET call == calls[1]
            body == sentOptions(call).body
            bodyObj == JSONparse(body.s)
        IN /\ body.t = "str"
           /\ HasMember(bodyObj, "variables")
           /\ HasMember(Member(bodyObj, "variables"), "searchCriteriaDetail")
           /\ LET detail == Member(Member(bodyObj, "variables"),
                                   "searchCriteriaDetail")
              IN /\ HasMember(detail, "txnFromDate")
                 /\ HasMember(detail, "txnToDate")
                 /\ Member(detail, "txnFromDate")
                      = JString(NewYorkMidnight(UTCDayNumber(call.start)))
                 /\ Member(detail, "txnToDate")
                      = JString(NewYorkMidnight(UTCDayNumber(call.end)))
                 /\ Member(detail, "txnFromDate") = JString(fidelityDate(call.start))
                 /\ Member(detail, "txnToDate") = JString(fidelityDate(call.end))
\* C12 witness: the evaluator was called with the request of a call for two
\* accounts from 2025-11-28 to 2025-12-02.
C12_Witness ==
    /\ calls[1].request # None
    /\ calls[1].nTxn = 1
    /\ txnFetches = 1
    /\ Len(calls[1].ids) = 2
    /\ calls[1].ids[1] # calls[1].ids[2]
    /\ calls[1].start = Date(DayA, 0)
    /\ calls[1].end = Date(DayB, 0)

\* C13: for every calendar day, fidelityDate gives the same string when
\* called again, a string of decimal digits, and a number of seconds
\* strictly smaller than that of the next day: larger by 86400 there,
\* except by 82800 when the day is the spring-forward day of
\* America/New_York (the second Sunday of March) and by 90000 when it is
\* the fall-back day (the first Sunday of November).
SecondsOf(str) == digitsToNat(str)
IsSunday(day) == (day - DaysFromCivil(2025, 11, 2)) % 7 = 0
IsSpringForwardDay(day) ==
    /\ IsSunday(day)
    /\ \E y \in 2007..2037 : day \in DaysFromCivil(y, 3, 8)..DaysFromCivil(y, 3, 14)
IsFallBackDay(day) ==
    /\ IsSunday(day)
    /\ \E y \in 2007..2037 : day \in DaysFromCivil(y, 11, 1)..DaysFromCivil(y, 11, 7)
C13_StableAndIncreasing ==
    /\ (epochs.first # None) => (\A i \in 1..Len(Get(epochs.first)) :
                                    Get(epochs.first)[i] \in Digits)
    /\ (epochs.again # None) => (epochs.again = epochs.first)
    /\ (epochs.next # None) =>
          LET step == SecondsOf(Get(epochs.next)) - SecondsOf(Get(epochs.first))
          IN /\ step > 0
             /\ step = (IF IsSpringForwardDay(epochs.day) THEN 82800
                        ELSE IF IsFallBackDay(epochs.day) THEN 90000
                        ELSE 86400)
             /\ epochs.day = DaysFromCivil(2025, 3, 9) => step = 82800
             /\ epochs.day = DaysFromCivil(2025, 11, 2) => step = 90000
             /\ epochs.day = DaysFromCivil(2025, 11, 28) => step = 86400
\* C13 witness: the fall-back day of 2025 and the day after it have been
\* converted, and the day converted again.
C13_Witness ==
    /\ epochs.day = DaysFromCivil(2025, 11, 2)
    /\ epochs.again # None
    /\ epochs.next # None
    /\ SecondsOf(Get(epochs.next)) - SecondsOf(Get(epochs.first)) = 90000

\* C14: a call whose account-list result has status 200 and carries a
\* backend status fails, when that status is not "ok" in some letter case,
\* with the error naming the backend status (the message "Fidelity backend
\* not ok <status>" inside the get_accounts failure), leaves the cache
\* unset and issues no transaction request; when the status is "ok", "OK",
\* "Ok" or "oK" and every asset has its name, the mapping of the result is
\* built and cached.  The failure is there once fetchAccounts has resumed
\* on the result (thrown, or on its way to the caller), the mapping once
\* getAccounts has.
HasBackendStatus(resp) ==
    /\ resp.kind = "resolve"
    /\ resp.status = 200
    /\ resp.json # None
    /\ Get(resp.json).data # None
BackendStatus(resp) == Get(Get(resp.json).data).sysStatus
IsOkIgnoringCase(status) ==
    /\ Len(status) = 2
    /\ status[1] \in {"o", "O"}
    /\ status[2] \in {"k", "K"}
C14_BackendStatus ==
    \A c \in Slots :
        LET call == calls[c]
        IN (call.acctResp # None /\ HasBackendStatus(Get(call.acctResp))) =>
              LET resp == Get(call.acctResp)
              IN IF ~IsOkIgnoringCase(BackendStatus(resp))
                 THEN /\ call.pc # "fetchAccounts"
                            => /\ FailsKind(call, "parse get_accounts")
                               /\ Get(Failure(call)).detail
                                     = <<"backend not ok", BackendStatus(resp)>>
                      /\ Ended(call) => ThrewKind(call, "parse get_accounts")
                      /\ accounts = None
                      /\ call.nAcct = 1
                      /\ call.nTxn = 0
                      /\ call.accts = None
                 ELSE (\A a \in Range(Get(Get(resp.json).data).assets) :
                          a.preferenceDetail # None)
                        => /\ call.pc \notin {"fetchAccounts", "getAccounts"}
                                 => /\ accounts # None
                                    /\ IsMappingOf(accounts, resp)
                           /\ ~FailsKind(call, "parse get_accounts")
\* C14 witness: the second call on a client has failed on a status-200
\* account list whose backend status is "down", after a first call that
\* failed too; the cache is unset.
C14_Witness ==
    /\ nCalls = 2
    /\ calls[1].pc = "threw"
    /\ calls[1].acctResp # None
    /\ HasBackendStatus(Get(calls[1].acctResp))
    /\ BackendStatus(Get(calls[1].acctResp)) = <<"d", "o", "w", "n">>
    /\ accounts = None
\* The upper-case and mixed-case spellings are accepted: a call has gone on
\* to its transaction request after an account list with backend status
\* "OK".
C14_UpperCaseAccepted ==
    /\ calls[1].pc = "awaitTransactions"
    /\ calls[1].acctResp # None
    /\ HasBackendStatus(Get(calls[1].acctResp))
    /\ BackendStatus(Get(calls[1].acctResp)) = <<"O", "K">>
    /\ accounts # None

\* C15: a getTransactions call hands at most one account-list request and
\* at most one transaction request to the evaluator, the account-list
\* request first; the transaction request is issued only when every
\* identifier of the call has been looked up and found; and a call whose
\* request failed (the evaluator rejected, or the status was not 200) is
\* failing from then on: the rejection passes unchanged through every
\* function that awaits it, no other request is issued, and the call ends
\* with that error.  A call that has ended issues nothing more.
FetchFailed(resp) == resp.kind = "reject" \/ resp.status # 200
C15_AtMostTwoRequests ==
    /\ [](\A c \in Slots :
            LET call == calls[c]
            IN /\ call.nAcct <= 1
               /\ call.nTxn <= 1
               /\ call.nTxn = 1 =>
                     \A id \in Range(call.ids) :
                        /\ MapHas(call.acctDict, id)
                        /\ MapGet(call.acctDict, id) # None
               /\ (call.acctResp # None /\ FetchFailed(Get(call.acctResp)))
                     => (Failure(call) # None /\ call.nAcct = 1 /\ call.nTxn = 0)
               /\ (call.txnResp # None /\ FetchFailed(Get(call.txnResp)))
                     => (Failure(call) # None /\ call.nTxn = 1)
               /\ call.pc \in {"awaitAccounts", "fetchAccounts", "getAccounts"}
                     => (call.nAcct = 1 /\ call.nTxn = 0)
               /\ call.pc \in {"awaitTransactions", "getTransactions"}
                     => call.nTxn = 1)
    /\ [][\A c \in Slots :
            /\ Rejected(calls[c])
                  => /\ Failure(calls'[c]) = Failure(calls[c])
                     /\ calls'[c].nAcct = calls[c].nAcct
                     /\ calls'[c].nTxn = calls[c].nTxn
            /\ (calls[c].nTxn = 1 /\ nCalls' = nCalls)
                  => (calls'[c].nAcct = calls[c].nAcct /\ calls'[c].nTxn = 1)
            /\ (calls[c].pc \in {"returned", "threw"} /\ nCalls' = nCalls)
                  => calls'[c] = calls[c]
            /\ acctFetches' + txnFetches' <= acctFetches + txnFetches + 1]_vars
\* C15 witness: a call made both requests, its transaction request failed,
\* and the call has ended with two evaluator calls in all.
C15_Witness ==
    /\ nCalls = 1
    /\ calls[1].pc = "threw"
    /\ calls[1].nAcct = 1
    /\ calls[1].nTxn = 1
    /\ FetchFailed(Get(calls[1].txnResp))
    /\ acctFetches + txnFetches = 2

\* C16: under overlapping calls the cache shares no fetch in flight.  A
\* call that started with the cache unset (valid dates, some identifier)
\* has issued its own account-list request, whatever the other call was
\* waiting for; every account-list request is counted; and whenever the
\* cache changes it is in the step in which a call's getAccounts resumes,
\* and it becomes the mapping of that call's account-list result, replacing
\* the mapping of an earlier one; a getAccounts that resumes on a rejection
\* leaves the cache as it is.
Successful(resp) == ~FailingAccountsResponse(resp)
C16_NoSharedFetch ==
    /\ [](\A c \in Slots :
            LET call == calls[c]
            IN (/\ Started(call)
                /\ call.cacheBefore = None
                /\ call.ids # <<>>
                /\ ~ThrewKind(call, "invalid dates"))
                  => call.nAcct = 1)
    /\ [](acctFetches >= calls[1].nAcct + calls[2].nAcct)
    /\ [][/\ \A c \in Slots :
               (calls[c].pc = "getAccounts" /\ calls'[c].pc # "getAccounts")
                  => IF Successful(Get(calls[c].acctResp))
                     THEN IsMappingOf(accounts', Get(calls[c].acctResp))
                     ELSE accounts' = accounts
          /\ accounts' # accounts
               => \E c \in Slots : /\ calls[c].pc = "getAccounts"
                                    /\ calls'[c].pc = "getAccount"]_vars
\* C16 witness: two calls started with the cache unset, each issued an
\* account-list request, both requests succeeded with different account
\* lists, and the cache holds the mapping of the second slot's result, not
\* the first's: two account-list requests in all.
C16_Witness ==
    /\ calls[1].cacheBefore = None
    /\ calls[2].cacheBefore = None
    /\ calls[1].nAcct = 1
    /\ calls[2].nAcct = 1
    /\ acctFetches = 2
    /\ calls[1].acctResp # None
    /\ calls[2].acctResp # None
    /\ Successful(Get(calls[1].acctResp))
    /\ Successful(Get(calls[2].acctResp))
    /\ accounts # None
    /\ IsMappingOf(accounts, Get(calls[2].acctResp))
    /\ ~IsMappingOf(accounts, Get(calls[1].acctResp))

\* C17: every Transaction a call returned has a date that is a valid
\* instant at 00:00:00.000 UTC of the calendar day written in the upstream
\* date string, whatever that string is.
C17_DateIsUTCMidnightOfDay ==
    \A c \in Slots :
        LET call == calls[c]
        IN call.pc = "returned" =>
              \A i \in 1..Len(Get(call.result)) :
                 LET date == Get(call.result)[i].date
                     raw == UpstreamHistorys(call)[i].date
                 IN /\ date # None
                    /\ Get(date).ms = 0
                    /\ Get(date).day = raw.day
\* What holds instead: a date that is valid is a UTC midnight, and it is
\* the day written in the string when the string is read in local time or
\* the local zone is UTC; a string that is not a date gives an Invalid Date.
C17_ValidDatesAreMidnights ==
    \A c \in Slots :
        LET call == calls[c]
        IN call.pc = "returned" =>
              \A i \in 1..Len(Get(call.result)) :
                 LET date == Get(call.result)[i].date
                     raw == UpstreamHistorys(call)[i].date
                 IN /\ (date = None) <=> (raw.zone = "invalid")
                    /\ date # None => Get(date).ms = 0
                    /\ (date # None /\ (raw.zone = "local" \/ tz = 0))
                          => Get(date).day = raw.day
\* A returned Transaction whose date is an Invalid Date.
C17_InvalidDateReturned ==
    /\ calls[1].pc = "returned"
    /\ \E i \in 1..Len(Get(calls[1].result)) : Get(calls[1].result)[i].date = None
\* A returned Transaction dated the day before the one written upstream.
C17_DayShifted ==
    /\ calls[1].pc = "returned"
    /\ \E i \in 1..Len(Get(calls[1].result)) :
          /\ Get(calls[1].result)[i].date # None
          /\ Get(Get(calls[1].result)[i].date).day
                = UpstreamHistorys(calls[1])[i].date.day - 1

====
